---- MODULE Spec2Model ----
(***************************************************************************)
(* Local Event Finder backend (main.py, gemini_service.py): the startup    *)
(* hook that builds the model client, the POST /find-events handler with   *)
(* its worker-thread call of find_local_events_via_search, and the prompt  *)
(* that function renders.  Strings are TLA+ strings, so f-string           *)
(* formatting is concatenation and "contains" is a substring search.       *)
(***************************************************************************)
EXTENDS Integers, Sequences, FiniteSets, TLC

VARIABLES
    phase,            \* "starting" | "serving" | "crashed": the lifespan hook's position
    api_key,          \* os.getenv("GEMINI_API_KEY"): None or Some(string)
    init_outcome,     \* how the call initialize_model() at startup ended
    gemini_model,     \* main.gemini_model: None or Some(model handle)
    today,            \* datetime.date.today() as [year, month, day]
    pc,               \* per request: "idle" | "dispatched" | "calling" | "returned" | "done"
    request_data,     \* per request: the EventRequest body, while its handler runs
    prompt,           \* per request: the prompt handed to generate_content, while the call runs
    calls,            \* per request: number of generate_content invocations
    response,         \* per request: what generate_content produced
    call_result,      \* per request: how find_local_events_via_search ended
    result,           \* per request: the EventResponse returned by the handler
    accepted_during,  \* per request: was another request's call in flight when it was accepted
    pb_args,          \* direct invocation of the prompt builder: its arguments
    pb_prompt         \* direct invocation of the prompt builder: the prompt built

vars == <<phase, api_key, init_outcome, gemini_model, today, pc, request_data, prompt,
          calls, response, call_result, result, accepted_during, pb_args, pb_prompt>>

-----------------------------------------------------------------------------
(* Bounds *)

NumRequests == 2
MaxTimeframeDays == 40

Requests == 1..NumRequests

-----------------------------------------------------------------------------
(* Optional values: Python's None and a present value *)

None == <<>>
Some(v) == <<v>>
Get(o) == o[1]

-----------------------------------------------------------------------------
(* Strings *)

\* Python's `t in s` for strings
Contains(s, t) ==
    \E i \in 1..(Len(s) - Len(t) + 1) : SubSeq(s, i, i + Len(t) - 1) = t

RECURSIVE first_comma(_, _)
\* index of the first "," of s at or after i, or Len(s) + 1
first_comma(s, i) ==
    IF i > Len(s) THEN i
    ELSE IF SubSeq(s, i, i) = "," THEN i
    ELSE first_comma(s, i + 1)

\* location.split(',')[0]
split_first(s) == SubSeq(s, 1, first_comma(s, 1) - 1)

-----------------------------------------------------------------------------
(* Calendar dates: datetime.date, timedelta addition and strftime *)

DefaultTimeframeDays == 14

is_leap(year) == year % 4 = 0 /\ (year % 100 # 0 \/ year % 400 = 0)

days_in_month(year, month) ==
    IF month = 2 THEN (IF is_leap(year) THEN 29 ELSE 28)
    ELSE IF month \in {4, 6, 9, 11} THEN 30 ELSE 31

days_before_year(year) ==
    LET y == year - 1 IN y * 365 + (y \div 4) - (y \div 100) + (y \div 400)

RECURSIVE days_before_month(_, _)
days_before_month(year, month) ==
    IF month = 1 THEN 0
    ELSE days_before_month(year, month - 1) + days_in_month(year, month - 1)

\* date.toordinal()
toordinal(d) == days_before_year(d.year) + days_before_month(d.year, d.month) + d.day

\* date.fromordinal(n): the proleptic Gregorian ordinal back to year, month, day
fromordinal(ordinal) ==
    LET n0   == ordinal - 1
        n400 == n0 \div 146097
        r400 == n0 % 146097
        n100 == r400 \div 36524
        r100 == r400 % 36524
        n4   == r100 \div 1461
        r4   == r100 % 1461
        n1   == r4 \div 365
        n    == r4 % 365
        year == n400 * 400 + 1 + n100 * 100 + n4 * 4 + n1
        est  == (n + 50) \div 32
        month == IF days_before_month(year, est) > n THEN est - 1 ELSE est
    IN  IF n1 = 4 \/ n100 = 4
        THEN [year |-> year - 1, month |-> 12, day |-> 31]
        ELSE [year |-> year, month |-> month,
              day |-> n - days_before_month(year, month) + 1]

\* today + datetime.timedelta(days=timeframe_days)
end_date_off_by_one(d, timeframe_days) == fromordinal(toordinal(d) + timeframe_days - 1)

end_date(d, timeframe_days) == fromordinal(toordinal(d) + timeframe_days)

MonthName ==
    <<"January", "February", "March", "April", "May", "June", "July",
      "August", "September", "October", "November", "December">>

\* "%d": the day of the month, zero-padded to two digits
pad2(n) == IF n < 10 THEN "0" \o ToString(n) ELSE ToString(n)

\* d.strftime('%B %d, %Y')
strftime(d) == MonthName[d.month] \o " " \o pad2(d.day) \o ", " \o ToString(d.year)

date_range_str(d, timeframe_days) ==
    strftime(d) \o " and " \o strftime(end_date(d, timeframe_days))

\* the f-string of find_local_events_via_search
build_prompt(location, interest_description, timeframe_days, d) ==
    "\n"
    \o "    Act as a helpful local event finder assistant for "
    \o location
    \o ". Your task is to find upcoming events based on a user's specific inte"
    \o "rest.\n"
    \o "\n"
    \o "    **Location Focus:** "
    \o location
    \o " (and immediately surrounding areas if relevant).\n"
    \o "    **Timeframe:** Events happening between "
    \o date_range_str(d, timeframe_days)
    \o ".\n"
    \o "    **User's Interest:** Find events related to \""
    \o interest_description
    \o "\". Interpret this interest broadly but accurately. For example, if the"
    \o " interest is 'live acoustic music', look for concerts, open mic nights"
    \o ", coffee shop performances etc. If it's 'volunteer gardening', look fo"
    \o "r park cleanups, community garden work days, planting events etc.\n"
    \o "\n"
    \o "    **Instructions:**\n"
    \o "    1.  **Use your web search capability extensively** to scan local n"
    \o "ews sites, city websites ("
    \o split_first(location)
    \o " city website), community calendars, park districts, libraries, Facebo"
    \o "ok events (if accessible), Eventbrite, and other relevant online sourc"
    \o "es for "
    \o location
    \o ".\n"
    \o "    2.  Filter the search results to find events that strongly match t"
    \o "he user's interest: \""
    \o interest_description
    \o "\".\n"
    \o "    3.  For each matching event found, extract and list the following "
    \o "information clearly:\n"
    \o "        * Event Name/Title\n"
    \o "        * Date(s) and Time(s) (if available)\n"
    \o "        * Specific Venue/Location (if available)\n"
    \o "        * A brief summary or description of the event and why it match"
    \o "es the interest.\n"
    \o "        * Source/Link where you found the information (if possible).\n"
    \o "    4.  Format the results as a clean, easy-to-read list (e.g., using "
    \o "Markdown bullet points or numbered lists).\n"
    \o "    5.  If you cannot find any events matching the criteria within the"
    \o " timeframe after searching, explicitly state that \"No specific events "
    \o "matching '"
    \o interest_description
    \o "' were found in "
    \o location
    \o " for the next "
    \o ToString(timeframe_days)
    \o " days.\"\n"
    \o "    6.  Do not include events outside the specified timeframe.\n"
    \o "    7.  Do not invent events. Only list events based on your web searc"
    \o "h findings.\n"
    \o "\n"
    \o "    Begin search and report your findings.\n"
    \o "    "

-----------------------------------------------------------------------------
(* The external service: what model.generate_content(prompt) can produce *)

QuotaExceeded == "quota exceeded"
TextAccessorError == "Invalid operation: response.text requires a valid Part"
NoTextAttribute == "'GenerateContentResponse' object has no attribute 'text'"
FoundEvents == "Found 2 events..."

\* the BlockReason enum: 0 is BLOCK_REASON_UNSPECIFIED (falsy), the others are truthy
BlockReasons == {0, 1}
block_reason_name(b) == IF b = 1 THEN "SAFETY" ELSE "BLOCK_REASON_UNSPECIFIED"

\* response.text: an attribute that is missing, holds a string, or raises when read
TextFields ==
    {[kind |-> "missing", v |-> ""],
     [kind |-> "value", v |-> ""],
     [kind |-> "value", v |-> FoundEvents],
     [kind |-> "raises", v |-> TextAccessorError]}

NoText == [kind |-> "missing", v |-> ""]

\* generate_content either raises or returns a response object
Outcomes ==
    {[kind |-> "raise", msg |-> QuotaExceeded, parts |-> <<>>, block_reason |-> 0,
      text |-> NoText]}
    \cup
    {[kind |-> "response", msg |-> "", parts |-> <<>>, block_reason |-> b, text |-> t] :
        b \in BlockReasons, t \in TextFields}
    \cup
    {[kind |-> "response", msg |-> "", parts |-> <<"part">>, block_reason |-> 0, text |-> t] :
        t \in TextFields}

NoOutcome ==
    [kind |-> "none", msg |-> "", parts |-> <<>>, block_reason |-> 0, text |-> NoText]

-----------------------------------------------------------------------------
(* find_local_events_via_search: how the call ends for a given outcome *)

Return(text) == [kind |-> "return", v |-> text]
Raise(msg) == [kind |-> "raise", v |-> msg]
NoResult == [kind |-> "none", v |-> ""]

BlockedPrefix == "Content generation blocked. Reason: "
EmptyResponseError == "Content generation failed. Received an empty response."

\* reading response.text outside hasattr: a missing attribute is an AttributeError
read_text(t) ==
    IF t.kind = "value" THEN Return(t.v)
    ELSE IF t.kind = "missing" THEN Raise(NoTextAttribute)
    ELSE Raise(t.v)

\* `hasattr(response, 'text') and response.text`, then the return or the raise that
\* follows: hasattr swallows AttributeError only, any other exception propagates
lenient_fallback(t) ==
    IF t.kind = "raises" THEN Raise(t.v)
    ELSE IF t.kind = "value" /\ t.v # "" THEN Return(t.v)
    ELSE Raise(EmptyResponseError)

\* the fallback text is looked at before the block reason
interpret_response_text_first(o) ==
    IF o.kind = "raise" THEN Raise(o.msg)
    ELSE IF o.parts = <<>>
    THEN IF o.text.kind = "value" /\ o.text.v # "" THEN Return(o.text.v)
         ELSE IF o.block_reason # 0
         THEN Raise(BlockedPrefix \o block_reason_name(o.block_reason))
         ELSE lenient_fallback(o.text)
    ELSE read_text(o.text)

\* the try block: the call, then the handling of the response; the except
\* clause logs and re-raises, so an exception leaves with its message
interpret_response(o) ==
    IF o.kind = "raise" THEN Raise(o.msg)
    ELSE IF o.parts = <<>>
    THEN IF o.block_reason # 0
         THEN Raise(BlockedPrefix \o block_reason_name(o.block_reason))
         ELSE lenient_fallback(o.text)
    ELSE read_text(o.text)

-----------------------------------------------------------------------------
(* find_events_api: the EventResponse payloads *)

\* a returned EventResponse is serialised as the body of an HTTP 200 reply
EventResponse(text, err) == [status |-> 200, results_text |-> text, error |-> err]
NoResponse == [status |-> 0, results_text |-> "", error |-> None]

ModelUnavailable ==
    "AI model is not available. Please check server logs or try again later."
FailedPrefix == "Failed to find events: "

\* `if not gemini_model` is the negation of this
model_available_always(m) == TRUE

model_available(m) == m # None

unavailable_response == EventResponse("", Some(ModelUnavailable))

success_response_empty_error(text) == EventResponse(text, Some(""))

\* EventResponse(results_text=generated_text_summary): error defaults to None
success_response(text) == EventResponse(text, None)

failure_response_no_message(msg) == EventResponse("", Some("Failed to find events"))

\* the except clause of the handler
failure_response(msg) == EventResponse("", Some(FailedPrefix \o msg))

\* what the handler returns once the awaited call has ended
handler_response(cr) ==
    IF cr.kind = "return" THEN success_response(cr.v) ELSE failure_response(cr.v)

\* asyncio.to_thread runs the call on a worker thread of the default executor
call_site_inline == "loop"

call_site == "worker"

\* the handler declares `global gemini_model` and never assigns it
model_cleared_on_failure(m, cr) == IF cr.kind = "raise" THEN None ELSE m

model_after_request(m, cr) == m

-----------------------------------------------------------------------------
(* Startup: initialize_model and the lifespan hook *)

ModelHandle == "gemini-1.5-pro-latest"

\* ext is what genai.configure and the GenerativeModel constructor do
initialize_model(key, ext) ==
    IF key = None \/ Get(key) = "" THEN "ValueError"
    ELSE IF ext = "raise" THEN "Exception"
    ELSE "ok"

lifespan_catches_value_error_only(kind) == kind = "ValueError"

\* `except ValueError` and `except Exception`
lifespan_catches(kind) == kind \in {"ValueError", "Exception"}

-----------------------------------------------------------------------------
(* State machine of the server *)

RequestBodies ==
    {[interest_description |-> "live acoustic music", location |-> "Blaine, MN"],
     [interest_description |-> "volunteer gardening", location |-> "Austin"]}

NoBody == [interest_description |-> "", location |-> ""]

ApiKeys == {None, Some(""), Some("key")}

ServingDate == [year |-> 2025, month |-> 4, day |-> 1]

NoArgs == [location |-> "", interest_description |-> "", timeframe_days |-> DefaultTimeframeDays]

\* the request's call has been handed over and has not ended yet
InFlight(q) == pc[q] \in {"dispatched", "calling"}

\* a call made inline holds the event-loop thread from dispatch until the handler ends
HoldsLoop(q) == call_site = "loop" /\ pc[q] \in {"dispatched", "calling", "returned"}

LoopFreeFor(r) == \A q \in Requests \ {r} : ~HoldsLoop(q)

ServerInit ==
    /\ phase = "starting"
    /\ api_key \in ApiKeys
    /\ init_outcome = "pending"
    /\ gemini_model = None
    /\ pc = [r \in Requests |-> "idle"]
    /\ request_data = [r \in Requests |-> NoBody]
    /\ prompt = [r \in Requests |-> ""]
    /\ calls = [r \in Requests |-> 0]
    /\ response = [r \in Requests |-> NoOutcome]
    /\ call_result = [r \in Requests |-> NoResult]
    /\ result = [r \in Requests |-> NoResponse]
    /\ accepted_during = [r \in Requests |-> FALSE]

Init ==
    /\ ServerInit
    /\ today = ServingDate
    /\ pb_args = NoArgs
    /\ pb_prompt = None

\* the part of lifespan() before the yield
Lifespan ==
    /\ phase = "starting"
    /\ \E ext \in {"ok", "raise"} :
        LET kind == initialize_model(api_key, ext) IN
        /\ init_outcome' = kind
        /\ IF kind = "ok"
           THEN gemini_model' = Some(ModelHandle) /\ phase' = "serving"
           ELSE IF lifespan_catches(kind)
           THEN gemini_model' = None /\ phase' = "serving"
           ELSE gemini_model' = gemini_model /\ phase' = "crashed"
    /\ UNCHANGED <<api_key, today, pc, request_data, prompt, calls, response,
                   call_result, result, accepted_during, pb_args, pb_prompt>>

\* find_events_api from its entry to its first await, or to its early return
Accept(r) ==
    /\ phase = "serving"
    /\ pc[r] = "idle"
    /\ LoopFreeFor(r)
    /\ accepted_during' = [accepted_during EXCEPT ![r] = \E q \in Requests : InFlight(q)]
    /\ \E body \in RequestBodies :
        IF model_available(gemini_model)
        THEN /\ request_data' = [request_data EXCEPT ![r] = body]
             /\ pc' = [pc EXCEPT ![r] = "dispatched"]
             /\ result' = result
        ELSE /\ request_data' = request_data
             /\ pc' = [pc EXCEPT ![r] = "done"]
             /\ result' = [result EXCEPT ![r] = unavailable_response]
    /\ UNCHANGED <<phase, api_key, init_outcome, gemini_model, today, prompt, calls,
                   response, call_result, pb_args, pb_prompt>>

\* find_local_events_via_search up to the call of model.generate_content(prompt)
WorkerStart(r) ==
    /\ pc[r] = "dispatched"
    /\ prompt' = [prompt EXCEPT ![r] =
            build_prompt(request_data[r].location, request_data[r].interest_description,
                         DefaultTimeframeDays, today)]
    /\ calls' = [calls EXCEPT ![r] = @ + 1]
    /\ pc' = [pc EXCEPT ![r] = "calling"]
    /\ UNCHANGED <<phase, api_key, init_outcome, gemini_model, today, request_data,
                   response, call_result, result, accepted_during, pb_args, pb_prompt>>

\* generate_content ends and the rest of find_local_events_via_search runs
WorkerReturn(r) ==
    /\ pc[r] = "calling"
    /\ \E o \in Outcomes :
        /\ response' = [response EXCEPT ![r] = o]
        /\ call_result' = [call_result EXCEPT ![r] = interpret_response(o)]
    /\ prompt' = [prompt EXCEPT ![r] = ""]
    /\ pc' = [pc EXCEPT ![r] = "returned"]
    /\ UNCHANGED <<phase, api_key, init_outcome, gemini_model, today, request_data,
                   calls, result, accepted_during, pb_args, pb_prompt>>

\* find_events_api after the await: the response, or the except clause
Resume(r) ==
    /\ pc[r] = "returned"
    /\ LoopFreeFor(r)
    /\ result' = [result EXCEPT ![r] = handler_response(call_result[r])]
    /\ gemini_model' = model_after_request(gemini_model, call_result[r])
    /\ request_data' = [request_data EXCEPT ![r] = NoBody]
    /\ pc' = [pc EXCEPT ![r] = "done"]
    /\ UNCHANGED <<phase, api_key, init_outcome, today, prompt, calls,
                   response, call_result, accepted_during, pb_args, pb_prompt>>

Next ==
    \/ Lifespan
    \/ \E r \in Requests : Accept(r)
    \/ \E r \in Requests : WorkerStart(r)
    \/ \E r \in Requests : WorkerReturn(r)
    \/ \E r \in Requests : Resume(r)

Spec == Init /\ [][Next]_vars

-----------------------------------------------------------------------------
(* The prompt builder called directly, over a range of arguments and dates *)

Dates ==
    {[year |-> 2025, month |-> 4, day |-> 1],
     [year |-> 2025, month |-> 1, day |-> 25],
     [year |-> 2024, month |-> 2, day |-> 20],
     [year |-> 2025, month |-> 12, day |-> 25],
     [year |-> 2023, month |-> 12, day |-> 31],
     [year |-> 2100, month |-> 2, day |-> 25],
     [year |-> 2000, month |-> 2, day |-> 28]}

PromptArgs ==
    {[location |-> b.location, interest_description |-> b.interest_description,
      timeframe_days |-> n] : b \in RequestBodies, n \in 1..MaxTimeframeDays}

InitPrompt ==
    /\ ServerInit
    /\ api_key = None
    /\ today \in Dates
    /\ pb_args \in PromptArgs
    /\ pb_prompt = None

BuildPrompt ==
    /\ pb_prompt = None
    /\ pb_prompt' = Some(build_prompt(pb_args.location, pb_args.interest_description,
                                      pb_args.timeframe_days, today))
    /\ UNCHANGED <<phase, api_key, init_outcome, gemini_model, today, pc, request_data,
                   prompt, calls, response, call_result, result, accepted_during, pb_args>>

NextPrompt == BuildPrompt

SpecPrompt == InitPrompt /\ [][NextPrompt]_vars

-----------------------------------------------------------------------------
(* Properties *)

Done(r) == pc[r] = "done"

\* the request's call returned a response object (it did not raise)
Responded(r) == Done(r) /\ response[r].kind = "response"

\* C1: when the model client is None, a handled request gets results_text = ""
\* and the fixed "AI model is not available..." error, and generate_content is
\* never invoked for it.
C1_NoClientNoCall ==
    (phase = "serving" /\ gemini_model = None) =>
        \A r \in Requests :
            /\ calls[r] = 0
            /\ pc[r] \in {"idle", "done"}
            /\ Done(r) =>
                /\ result[r].results_text = ""
                /\ result[r].error # None
                /\ SubSeq(Get(result[r].error), 1, 26) = "AI model is not available."
                /\ Get(result[r].error) = ModelUnavailable

C1_Witness ==
    /\ gemini_model = None
    /\ \E r \in Requests : Done(r) /\ calls[r] = 0 /\ result[r].error = Some(ModelUnavailable)

\* C2 (as claimed): every returned payload has either error unset and a
\* non-empty results_text, or error set and an empty results_text.
C2_ExactlyOneOfTextOrError ==
    \A r \in Requests :
        Done(r) =>
            \/ result[r].error = None /\ result[r].results_text # ""
            \/ result[r].error # None /\ result[r].results_text = ""

\* the call of the request raised an exception with message m: generate_content
\* itself, or a read of response.text that the function performs
Raised(o, m) ==
    \/ o.kind = "raise" /\ o.msg = m
    \/ /\ o.kind = "response"
       /\ o.text.kind = "raises"
       /\ o.text.v = m
       /\ (o.parts # <<>> \/ o.block_reason = 0)

\* C3: an exception with message m from the external call (or from reading the
\* response) ends the request with an HTTP 200 payload whose results_text is ""
\* and whose error contains m.
C3_ExceptionSurfaced ==
    \A r \in Requests :
        \A m \in {QuotaExceeded, TextAccessorError} :
            (Done(r) /\ Raised(response[r], m)) =>
                /\ result[r].status = 200
                /\ result[r].results_text = ""
                /\ result[r].error # None
                /\ Contains(Get(result[r].error), m)

C3_Witness ==
    /\ \E r \in Requests : Done(r) /\ Raised(response[r], QuotaExceeded)
    /\ \E r \in Requests : Done(r) /\ Raised(response[r], TextAccessorError)

\* C4: a response with populated parts and text T is returned as
\* results_text = T, unchanged, with error = null.
C4_TextReturnedUnchanged ==
    \A r \in Requests :
        (Responded(r) /\ response[r].parts # <<>> /\ response[r].text.kind = "value") =>
            /\ result[r].status = 200
            /\ result[r].results_text = response[r].text.v
            /\ result[r].error = None

C4_Witness ==
    \E r \in Requests :
        /\ Responded(r)
        /\ response[r].parts # <<>>
        /\ response[r].text = [kind |-> "value", v |-> "Found 2 events..."]
        /\ result[r].results_text = "Found 2 events..."

\* C5: a response with empty parts and a populated block reason R gives
\* results_text = "" and an error containing the name of R, whatever the raw
\* text field holds.
C5_BlockReasonSurfaced ==
    \A r \in Requests :
        (Responded(r) /\ response[r].parts = <<>> /\ response[r].block_reason = 1) =>
            /\ result[r].results_text = ""
            /\ result[r].error # None
            /\ Contains(Get(result[r].error), "SAFETY")
            /\ Contains(Get(result[r].error), "blocked")

C5_Witness ==
    \E r \in Requests :
        /\ Responded(r)
        /\ response[r].parts = <<>>
        /\ response[r].block_reason = 1
        /\ response[r].text = [kind |-> "value", v |-> "Found 2 events..."]
        /\ Contains(Get(result[r].error), "SAFETY")

\* C6 (as claimed): with empty parts and no block reason the handler succeeds
\* exactly when the response exposes a non-empty raw text, returning it with
\* error = null; otherwise it returns results_text = "" with the generic "empty
\* response" error, which differs from the blocked-content error.
C6_FallbackOrEmptyResponse ==
    \A r \in Requests :
        (Responded(r) /\ response[r].parts = <<>> /\ response[r].block_reason = 0) =>
            IF response[r].text.kind = "value" /\ response[r].text.v # ""
            THEN /\ result[r].results_text = response[r].text.v
                 /\ result[r].error = None
            ELSE /\ result[r].results_text = ""
                 /\ result[r].error # None
                 /\ Contains(Get(result[r].error), "empty response")
                 /\ ~Contains(Get(result[r].error), "blocked")

\* C7: the external call never runs on the event-loop thread, so while one
\* request's call is in flight every other request can take its next step: be
\* accepted, start and finish its own call, and complete.
C7_CallOffTheEventLoop ==
    \A a \in Requests :
        InFlight(a) =>
            /\ ~HoldsLoop(a)
            /\ \A b \in Requests \ {a} :
                /\ pc[b] = "idle" => ENABLED Accept(b)
                /\ pc[b] = "dispatched" => ENABLED WorkerStart(b)
                /\ pc[b] = "calling" => ENABLED WorkerReturn(b)
                /\ pc[b] = "returned" => ENABLED Resume(b)

C7_Witness ==
    \E a \in Requests :
        \E b \in Requests \ {a} :
            /\ pc[a] = "calling"
            /\ Done(b)
            /\ accepted_during[b]
            /\ calls[b] = 1

\* C8: if initialisation fails at startup (no API key, or any other exception)
\* the process keeps serving with the model client absent, and every request
\* handled afterwards gets the "model not available" error.
C8_FailedInitKeepsServing ==
    /\ (phase # "starting" /\ (api_key = None \/ api_key = Some(""))) =>
            init_outcome = "ValueError"
    /\ init_outcome \in {"ValueError", "Exception"} =>
        /\ phase = "serving"
        /\ gemini_model = None
        /\ \A r \in Requests :
            /\ pc[r] = "idle" => ENABLED Accept(r)
            /\ pc[r] # "idle" =>
                /\ Done(r)
                /\ result[r] = [status |-> 200, results_text |-> "",
                                error |-> Some(ModelUnavailable)]

C8_Witness ==
    /\ init_outcome = "Exception"
    /\ api_key = Some("key")
    /\ \A r \in Requests : Done(r) /\ result[r].error = Some(ModelUnavailable)

\* the per-request state of q is the same before and after the step
SameRequestState(q) ==
    /\ pc'[q] = pc[q]
    /\ request_data'[q] = request_data[q]
    /\ prompt'[q] = prompt[q]
    /\ calls'[q] = calls[q]
    /\ response'[q] = response[q]
    /\ call_result'[q] = call_result[q]
    /\ result'[q] = result[q]

\* C9: once serving, no step of any request changes the model client handle or
\* another request's state, and two requests whose own calls ended the same
\* way get the same result.
C9_NoSharedWrites ==
    /\ [](\A r \in Requests : \A q \in Requests :
            (Done(r) /\ Done(q) /\ calls[r] = 1 /\ calls[q] = 1
                /\ response[r] = response[q]) => result[r] = result[q])
    /\ [][phase = "serving" =>
            /\ gemini_model' = gemini_model
            /\ api_key' = api_key
            /\ \E r \in Requests : \A q \in Requests \ {r} : SameRequestState(q)]_vars

C9_Witness ==
    /\ gemini_model # None
    /\ \E r \in Requests : \E q \in Requests \ {r} :
        /\ Done(r) /\ result[r].error # None
        /\ Done(q) /\ result[q].error = None /\ calls[q] = 1

\* the day after d in the Gregorian calendar
CalendarNextDay(d) ==
    LET leap == (d.year % 4 = 0 /\ d.year % 100 # 0) \/ d.year % 400 = 0
        last == CASE d.month \in {1, 3, 5, 7, 8, 10, 12} -> 31
                  [] d.month \in {4, 6, 9, 11} -> 30
                  [] OTHER -> IF leap THEN 29 ELSE 28
    IN  IF d.day < last THEN [d EXCEPT !.day = @ + 1]
        ELSE IF d.month < 12 THEN [d EXCEPT !.month = @ + 1, !.day = 1]
        ELSE [year |-> d.year + 1, month |-> 1, day |-> 1]

RECURSIVE CalendarAdd(_, _)
CalendarAdd(d, n) == IF n = 0 THEN d ELSE CalendarAdd(CalendarNextDay(d), n - 1)

\* "April 01, 2025"
CalendarText(d) ==
    LET names == <<"January", "February", "March", "April", "May", "June", "July",
                   "August", "September", "October", "November", "December">>
        digits == <<"0", "1", "2", "3", "4", "5", "6", "7", "8", "9">>
    IN  names[d.month] \o " " \o digits[(d.day \div 10) + 1] \o digits[(d.day % 10) + 1]
            \o ", " \o ToString(d.year)

\* C10: the prompt contains the literal interest, the literal location, and
\* the window "between <current date> and <current date + timeframe_days>",
\* both dates formatted like "April 01, 2025", the end date counted in
\* calendar days across month and year ends.
C10_PromptDates ==
    pb_prompt # None =>
        LET p == Get(pb_prompt)
            last == CalendarAdd(today, pb_args.timeframe_days)
        IN  /\ Contains(p, pb_args.interest_description)
            /\ Contains(p, pb_args.location)
            /\ Contains(p, "between " \o CalendarText(today) \o " and "
                            \o CalendarText(last) \o ".")
            /\ (today = [year |-> 2025, month |-> 4, day |-> 1]
                    /\ pb_args.timeframe_days = 14) =>
                Contains(p, "between April 01, 2025 and April 15, 2025.")

C10_Witness ==
    /\ pb_prompt # None
    /\ today = [year |-> 2023, month |-> 12, day |-> 31]
    /\ pb_args.timeframe_days = 14
    /\ Contains(Get(pb_prompt), "between December 31, 2023 and January 14, 2024.")

====
